---- MODULE Spec2Model ----
(***************************************************************************)
(* Rise Over Run: the React component App of src/src/App.js and its        *)
(* earlier revision src/unnamed/part_000.  The component keeps the route,  *)
(* the map centre, the elevation gain and (App.js) the elevation chart in  *)
(* React state; handleRouteRequest is an async handler whose awaits        *)
(* (geocode start, geocode end, route fetch, elevation fetch) are the      *)
(* points where other invocations may run.                                 *)
(*                                                                         *)
(* Elevations are fixed-point integers in quarter metres, so that every    *)
(* value is an exact double and Number.prototype.toFixed(1) is exact.      *)
(* Coordinates are integer degrees.                                        *)
(***************************************************************************)
EXTENDS Integers, Sequences, FiniteSets, TLC

\* Bounds of the model.
MaxRequests == 2
MaxLen == 3
MaxElev == 3

VARIABLES
    build,          \* which source file is running: "App" or "part_000"
    routeType,      \* useState("flat")
    routeCoords,    \* useState([])
    center,         \* useState([37.7749, -122.4194])
    elevationGain,  \* useState(null)
    elevationData,  \* useState([])      (App.js only)
    pc,             \* position of each handleRouteRequest invocation
    closure,        \* routeType captured by each invocation's closure
    geoData,        \* geocoder responses each invocation has received
    startCoords,    \* local of each invocation
    endCoords,      \* local of each invocation
    routeReq,       \* route request each invocation has sent
    originalCoords, \* local of each invocation
    elevReq,        \* elevation request each invocation has sent
    elevData,       \* elevation response each invocation has received
    input,          \* argument of a direct call of calculateElevationGain
    result          \* its return value

vars == <<build, routeType, routeCoords, center, elevationGain, elevationData,
          pc, closure, geoData, startCoords, endCoords, routeReq,
          originalCoords, elevReq, elevData, input, result>>

appState == <<routeType, routeCoords, center, elevationGain, elevationData>>
locals == <<pc, closure, geoData, startCoords, endCoords, routeReq,
            originalCoords, elevReq, elevData>>

Requests == 1..MaxRequests
Builds == {"App", "part_000"}
NULL == "null"
NoCoords == <<>>

-----------------------------------------------------------------------------
(* Pure code *)

\* gain.toFixed(1): the nearest tenth, the larger one on a tie; gain is in
\* quarter metres and never negative.
toFixed1(quarters) ==
    LET tenths == (10 * quarters + 2) \div 4
    IN  ToString(tenths \div 10) \o "." \o ToString(tenths % 10)

RECURSIVE gainLoop(_, _, _)
gainLoop(elevations, i, gain) ==
    IF i < Len(elevations)
    THEN LET diff == elevations[i + 1] - elevations[i]
         IN  gainLoop(elevations, i + 1, IF diff > 0 THEN gain + diff ELSE gain)
    ELSE gain

\* The bug of summing every delta (the net change) instead of the rises.
calculateElevationGain_AllDeltas(elevations) ==
    LET net == IF Len(elevations) < 2 THEN 0
               ELSE elevations[Len(elevations)] - elevations[1]
    IN  toFixed1(IF net < 0 THEN 0 - net ELSE net) \o " m"

\* The bug of starting the loop one sample late (let i = 2).
calculateElevationGain_SkipFirst(elevations) ==
    toFixed1(gainLoop(elevations, 2, 0)) \o " m"

calculateElevationGain(elevations) ==
    toFixed1(gainLoop(elevations, 1, 0)) \o " m"

\* What the component reports of a profile: the gain string, nothing else.
climbMetrics(elevations) == [gain |-> calculateElevationGain(elevations)]

\* ([lng, lat]) => [lat, lng], and [coords[1], coords[0]]
swap(p) == <<p[2], p[1]>>

\* The bug of returning the geocoder's pair in the order it came.
geocode_Unswapped(data) ==
    IF data.features = <<>> THEN NoCoords
    ELSE data.features[1].geometry.coordinates

geocode(data) ==
    LET coords == IF data.features = <<>> THEN NoCoords
                  ELSE data.features[1].geometry.coordinates
    IN  IF coords = NoCoords THEN NoCoords ELSE <<coords[2], coords[1]>>

\* data.features[0] of a response without a features array is a TypeError.
geocodeThrows(data) == "features" \notin DOMAIN data

preferenceOf(rt) == IF rt = "fast" THEN "fastest" ELSE "recommended"

\* elevData.geometry.coordinates.map((coord, i) => ({distance: i * 10, ...}))
elevationChart(coordinates) ==
    [i \in 1..Len(coordinates) |->
        [distance |-> (i - 1) * 10, elevation |-> coordinates[i][3]]]

\* .map((point) => point[2])
elevationsOf(coordinates) == [i \in 1..Len(coordinates) |-> coordinates[i][3]]

-----------------------------------------------------------------------------
(* The external services, as far as the component can tell them apart *)

\* Points are [lng, lat] as the services give them.
Place1 == <<-122, 37>>
Place2 == <<-123, 47>>
Hill == <<-124, 40>>
Valley1 == <<-125, 41>>
Valley2 == <<-126, 42>>
Places == {Place1, Place2}

\* The place a text names.  The texts in the two inputs are fixed: typing
\* is not modelled.
PlaceOf(text) == IF text = "start" THEN Place1 ELSE Place2

\* geocode/search for a text: a hit, no hit, or an error body without
\* features.
GeocoderResponses(text) ==
    {[features |-> <<[geometry |-> [coordinates |-> PlaceOf(text)]]>>],
     [features |-> <<>>],
     [error |-> "geocoder"]}

\* The terrain, in quarter metres.
ElevationAt(p) ==
    CASE p = Place1 -> 40
      [] p = Place2 -> 41
      [] p = Hill -> 80
      [] OTHER -> 40

\* The walking routes between two points: over the hill (three points), or
\* around it through the valley (four points).
Candidates(s, e) == {<<s, Hill, e>>, <<s, Valley1, Valley2, e>>}

\* Length of a route at the chart's 10 m per sample (distance: i * 10).
routeDistance(coords) == (Len(coords) - 1) * 10

\* directions/foot-walking/geojson: "fastest" answers with a shortest
\* candidate, "recommended" with a candidate of the provider's choosing; or
\* an error body without features.
RouteResponses(req) ==
    LET cands == Candidates(req.coordinates[1], req.coordinates[2])
        shortest == {c \in cands :
                        \A d \in cands : routeDistance(c) <= routeDistance(d)}
        chosen == IF req.preference = "fastest" THEN shortest ELSE cands
    IN  {[features |-> <<[geometry |-> [coordinates |-> c]]>>] : c \in chosen}
        \cup {[error |-> "directions"]}

\* elevation/line: [lng, lat, elevation] per point of the line, an empty
\* line, or an error body without geometry.  format_out "geojson" wraps the
\* points in geometry.coordinates, "json" gives them as geometry.
ElevationResponses(req) ==
    LET line == [i \in 1..Len(req.geometry) |->
                    LET p == swap(req.geometry[i])
                    IN  <<p[1], p[2], ElevationAt(p)>>]
        wrap(pts) == IF req.format_out = "geojson"
                     THEN [geometry |-> [coordinates |-> pts]]
                     ELSE [geometry |-> pts]
    IN  {wrap(line), wrap(<<>>), [message |-> "elevation"]}

\* The samples an elevation response carries (none when geometry is absent).
Samples(b, data) ==
    IF "geometry" \notin DOMAIN data THEN <<>>
    ELSE IF b = "App" THEN data.geometry.coordinates ELSE data.geometry

-----------------------------------------------------------------------------
(* The component *)

Init ==
    /\ build \in Builds
    /\ routeType = "flat"
    /\ routeCoords = <<>>
    /\ center = <<37, -122>>
    /\ elevationGain = NULL
    /\ elevationData = <<>>
    /\ pc = [r \in Requests |-> "idle"]
    /\ closure = [r \in Requests |-> "flat"]
    /\ geoData = [r \in Requests |-> <<>>]
    /\ startCoords = [r \in Requests |-> NoCoords]
    /\ endCoords = [r \in Requests |-> NoCoords]
    /\ routeReq = [r \in Requests |-> <<>>]
    /\ originalCoords = [r \in Requests |-> <<>>]
    /\ elevReq = [r \in Requests |-> <<>>]
    /\ elevData = [r \in Requests |-> <<>>]
    /\ input = <<>>
    /\ result = NULL

Ended(r) == pc[r] \in {"done", "alertedGeocode", "alertedElevation", "threw"}
InFlight(r) == pc[r] \in {"geocodeStart", "geocodeEnd", "route", "elevation"}

\* <select onChange={(e) => setRouteType(e.target.value)}>
setRouteType(t) ==
    /\ t # routeType
    /\ routeType' = t
    /\ UNCHANGED <<build, routeCoords, center, elevationGain, elevationData,
                   locals, input, result>>

\* <button onClick={handleRouteRequest}>: the invocation starts and awaits
\* geocode(start).  Invocations are numbered in click order.
Click(r) ==
    /\ pc[r] = "idle"
    /\ \A q \in Requests : q < r => pc[q] # "idle"
    /\ pc' = [pc EXCEPT ![r] = "geocodeStart"]
    /\ closure' = [closure EXCEPT ![r] = routeType]
    /\ UNCHANGED <<build, appState, geoData, startCoords, endCoords, routeReq,
                   originalCoords, elevReq, elevData, input, result>>

\* A click made while no other invocation is in flight.
ClickAlone(r) ==
    /\ \A q \in Requests : ~InFlight(q)
    /\ Click(r)

\* const startCoords = await geocode(start); then geocode(end) is called.
GeocodeStart(r) ==
    /\ pc[r] = "geocodeStart"
    /\ \E data \in GeocoderResponses("start") :
        /\ geoData' = [geoData EXCEPT ![r] = Append(@, data)]
        /\ IF geocodeThrows(data)
           THEN /\ pc' = [pc EXCEPT ![r] = "threw"]
                /\ UNCHANGED startCoords
           ELSE /\ pc' = [pc EXCEPT ![r] = "geocodeEnd"]
                /\ startCoords' = [startCoords EXCEPT ![r] = geocode(data)]
    /\ UNCHANGED <<build, appState, closure, endCoords, routeReq,
                   originalCoords, elevReq, elevData, input, result>>

\* The bug of testing only the start place before the route request.
GeocodeEnd_StartOnly(r) ==
    /\ pc[r] = "geocodeEnd"
    /\ \E data \in GeocoderResponses("end") :
        /\ geoData' = [geoData EXCEPT ![r] = Append(@, data)]
        /\ IF geocodeThrows(data)
           THEN /\ pc' = [pc EXCEPT ![r] = "threw"]
                /\ UNCHANGED <<endCoords, routeReq>>
           ELSE /\ endCoords' = [endCoords EXCEPT ![r] = geocode(data)]
                /\ IF startCoords[r] = NoCoords
                   THEN /\ pc' = [pc EXCEPT ![r] = "alertedGeocode"]
                        /\ UNCHANGED routeReq
                   ELSE /\ pc' = [pc EXCEPT ![r] = "route"]
                        /\ routeReq' = [routeReq EXCEPT ![r] =
                              <<[preference |-> preferenceOf(closure[r]),
                                 coordinates |-> <<swap(startCoords[r]),
                                     IF geocode(data) = NoCoords
                                     THEN NoCoords
                                     ELSE swap(geocode(data))>>]>>]
    /\ UNCHANGED <<build, appState, closure, startCoords, originalCoords,
                   elevReq, elevData, input, result>>

\* const endCoords = await geocode(end); the null test with its alert and
\* return; otherwise the route request is sent.
GeocodeEnd(r) ==
    /\ pc[r] = "geocodeEnd"
    /\ \E data \in GeocoderResponses("end") :
        /\ geoData' = [geoData EXCEPT ![r] = Append(@, data)]
        /\ IF geocodeThrows(data)
           THEN /\ pc' = [pc EXCEPT ![r] = "threw"]
                /\ UNCHANGED <<endCoords, routeReq>>
           ELSE /\ endCoords' = [endCoords EXCEPT ![r] = geocode(data)]
                /\ IF startCoords[r] = NoCoords \/ geocode(data) = NoCoords
                   THEN /\ pc' = [pc EXCEPT ![r] = "alertedGeocode"]
                        /\ UNCHANGED routeReq
                   ELSE /\ pc' = [pc EXCEPT ![r] = "route"]
                        /\ routeReq' = [routeReq EXCEPT ![r] =
                              <<[preference |-> preferenceOf(closure[r]),
                                 coordinates |-> <<swap(startCoords[r]),
                                                   swap(geocode(data))>>]>>]
    /\ UNCHANGED <<build, appState, closure, startCoords, originalCoords,
                   elevReq, elevData, input, result>>

\* const routeData = await routeRes.json(); routeData.features[0] of an
\* error body is a TypeError.  Otherwise the route and the centre are set
\* and the elevation request is sent.
RouteResponse(r) ==
    /\ pc[r] = "route"
    /\ \E routeData \in RouteResponses(routeReq[r][1]) :
        IF "features" \notin DOMAIN routeData
        THEN /\ pc' = [pc EXCEPT ![r] = "threw"]
             /\ UNCHANGED <<routeCoords, center, originalCoords, elevReq>>
        ELSE LET original == routeData.features[1].geometry.coordinates
                 coords == [i \in 1..Len(original) |-> swap(original[i])]
             IN  /\ originalCoords' = [originalCoords EXCEPT ![r] = original]
                 /\ routeCoords' = coords
                 /\ center' = coords[1]
                 /\ elevReq' = [elevReq EXCEPT ![r] =
                       <<[format_out |-> IF build = "App" THEN "geojson"
                                         ELSE "json",
                          geometry |-> [i \in 1..Len(original) |->
                                           swap(original[i])]]>>]
                 /\ pc' = [pc EXCEPT ![r] = "elevation"]
    /\ UNCHANGED <<build, routeType, elevationGain, elevationData, closure,
                   geoData, startCoords, endCoords, routeReq, elevData,
                   input, result>>

\* App.js: const elevData = await elevRes.json(); then
\* setElevationData(elevationChart) names a const of the later if-block,
\* which is not in scope: a ReferenceError, whatever the response.
ElevationResponseApp(r) ==
    /\ build = "App"
    /\ pc[r] = "elevation"
    /\ \E data \in ElevationResponses(elevReq[r][1]) :
        elevData' = [elevData EXCEPT ![r] = <<data>>]
    /\ pc' = [pc EXCEPT ![r] = "threw"]
    /\ UNCHANGED <<build, appState, closure, geoData, startCoords, endCoords,
                   routeReq, originalCoords, elevReq, input, result>>

\* part_000: const elevData = await elevRes.json(); alert and return when
\* geometry is absent, otherwise the gain of geometry's elevations is set.
ElevationResponsePart000(r) ==
    /\ build = "part_000"
    /\ pc[r] = "elevation"
    /\ \E data \in ElevationResponses(elevReq[r][1]) :
        /\ elevData' = [elevData EXCEPT ![r] = <<data>>]
        /\ IF "geometry" \notin DOMAIN data
           THEN /\ pc' = [pc EXCEPT ![r] = "alertedElevation"]
                /\ UNCHANGED elevationGain
           ELSE /\ elevationGain' =
                      calculateElevationGain(elevationsOf(data.geometry))
                /\ pc' = [pc EXCEPT ![r] = "done"]
    /\ UNCHANGED <<build, routeType, routeCoords, center, elevationData,
                   closure, geoData, startCoords, endCoords, routeReq,
                   originalCoords, elevReq, input, result>>

Handler(r) ==
    \/ GeocodeStart(r)
    \/ GeocodeEnd(r)
    \/ RouteResponse(r)
    \/ ElevationResponseApp(r)
    \/ ElevationResponsePart000(r)

\* Any clicks, overlapping or not.
Next ==
    \/ \E t \in {"flat", "fast"} : setRouteType(t)
    \/ \E r \in Requests : Click(r)
    \/ \E r \in Requests : Handler(r)

Spec == Init /\ [][Next]_vars

\* One route request at a time: no click while an invocation is in flight.
NextAlone ==
    \/ \E t \in {"flat", "fast"} : setRouteType(t)
    \/ \E r \in Requests : ClickAlone(r)
    \/ \E r \in Requests : Handler(r)

SpecAlone == Init /\ [][NextAlone]_vars

-----------------------------------------------------------------------------
(* calculateElevationGain called directly on arbitrary profiles *)

RECURSIVE SeqsUpTo(_, _)
SeqsUpTo(S, n) ==
    IF n = 0 THEN {<<>>}
    ELSE LET shorter == SeqsUpTo(S, n - 1)
         IN  shorter \cup {Append(s, x) : s \in {t \in shorter : Len(t) = n - 1},
                                          x \in S}

Profiles == SeqsUpTo(0..MaxElev, MaxLen)

InitGain ==
    /\ build \in Builds
    /\ routeType = "flat"
    /\ routeCoords = <<>>
    /\ center = <<37, -122>>
    /\ elevationGain = NULL
    /\ elevationData = <<>>
    /\ pc = [r \in Requests |-> "idle"]
    /\ closure = [r \in Requests |-> "flat"]
    /\ geoData = [r \in Requests |-> <<>>]
    /\ startCoords = [r \in Requests |-> NoCoords]
    /\ endCoords = [r \in Requests |-> NoCoords]
    /\ routeReq = [r \in Requests |-> <<>>]
    /\ originalCoords = [r \in Requests |-> <<>>]
    /\ elevReq = [r \in Requests |-> <<>>]
    /\ elevData = [r \in Requests |-> <<>>]
    /\ input \in Profiles
    /\ result = NULL

Calculate ==
    /\ result = NULL
    /\ result' = climbMetrics(input).gain
    /\ UNCHANGED <<build, appState, locals, input>>

SpecGain == InitGain /\ [][Calculate]_vars

-----------------------------------------------------------------------------
(* Vocabulary of the properties *)

Rise(e, i) == IF e[i] > e[i - 1] THEN e[i] - e[i - 1] ELSE 0

\* The sum of the positive deltas e[i] - e[i-1] over the indices in S.
RECURSIVE SumRises(_, _)
SumRises(e, S) ==
    IF S = {} THEN 0
    ELSE LET i == CHOOSE x \in S : TRUE
         IN  Rise(e, i) + SumRises(e, S \ {i})

\* s is the decimal with one fraction digit nearest to q quarter metres
\* (n/10 - q/4 in (-1/20, 1/20]), followed by " m".
IsRendering(s, q) ==
    \E n \in 0..(3 * q + 1) :
        /\ 4 * n - 10 * q \in {-1, 0, 1, 2}
        /\ s = ToString(n \div 10) \o "." \o ToString(n % 10) \o " m"

\* e rises by h to a peak and then descends by h.
UpThenDown(e, h) ==
    /\ h > 0
    /\ \E k \in 1..Len(e) :
        /\ \A i \in 2..k : e[i] >= e[i - 1]
        /\ \A i \in (k + 1)..Len(e) : e[i] <= e[i - 1]
        /\ e[k] - e[1] = h
        /\ e[k] - e[Len(e)] = h

\* pts is orig with each pair's axes exchanged: same count, same order.
AxesExchanged(pts, orig) ==
    /\ Len(pts) = Len(orig)
    /\ \A i \in 1..Len(orig) : pts[i][1] = orig[i][2] /\ pts[i][2] = orig[i][1]

\* The invocation of the latest click.
Latest(r) == pc[r] # "idle" /\ \A q \in Requests : q > r => pc[q] = "idle"

\* Invocation r has an elevation response with / without samples.
GotSamples(r) == elevData[r] # <<>> /\ Samples(build, elevData[r][1]) # <<>>
GotNoSamples(r) == elevData[r] # <<>> /\ Samples(build, elevData[r][1]) = <<>>

\* The gain of the elevations invocation r was answered with.
GainOfResponse(r) ==
    calculateElevationGain(elevationsOf(Samples(build, elevData[r][1])))

\* The gain, in quarter metres, along a route of [lng, lat] points.
GainAlong(c) == SumRises([i \in 1..Len(c) |-> ElevationAt(c[i])], 2..Len(c))

-----------------------------------------------------------------------------
(* The claims *)

\* C1: calculateElevationGain returns the sum of the strictly positive deltas
\* between consecutive elevations, rendered to one decimal with the suffix
\* " m"; the result is 0 for fewer than two samples and for all-equal
\* elevations.
C1_GainIsSumOfRises ==
    result # NULL =>
        /\ IsRendering(result, SumRises(input, 2..Len(input)))
        /\ Len(input) < 2 => result = "0.0 m"
        /\ (\A i \in 1..Len(input) : input[i] = input[1]) => result = "0.0 m"

C1_Witness ==
    /\ result \notin {NULL, "0.0 m"}
    /\ Len(input) = 3
    /\ input[2] > input[1]
    /\ input[3] < input[2]

C3_NoSamplesAlerts ==
    \A r \in Requests : GotNoSamples(r) => pc[r] = "alertedElevation"

\* C4: an invocation that got its endpoints, a route and an elevation
\* response with samples completes with elevationGain set to the gain of that
\* response, and in App.js with elevationData holding one chart point per
\* sample in order.
C4_SamplesGiveGain ==
    \A r \in Requests :
        Latest(r) /\ GotSamples(r) =>
            /\ pc[r] = "done"
            /\ elevationGain = GainOfResponse(r)
            /\ build = "App" =>
                 elevationData = elevationChart(Samples(build, elevData[r][1]))

\* The states of a geocode failure: alerted, nothing sent; and of a route
\* request: both endpoints resolved.
C5_State ==
    \A r \in Requests :
        /\ ( /\ Len(geoData[r]) = 2
             /\ pc[r] # "threw"
             /\ startCoords[r] = NoCoords \/ endCoords[r] = NoCoords )
           => pc[r] = "alertedGeocode"
        /\ pc[r] = "alertedGeocode" =>
             /\ routeReq[r] = <<>>
             /\ elevReq[r] = <<>>
             /\ originalCoords[r] = <<>>
        /\ routeReq[r] # <<>> =>
             /\ startCoords[r] # NoCoords
             /\ endCoords[r] # NoCoords
             /\ \A i \in 1..2 : routeReq[r][1].coordinates[i] \in Places

\* The steps up to the geocode alert leave the displayed state alone, and the
\* alert is the end of the invocation.
C5_Step ==
    \A r \in Requests :
        /\ ( /\ pc'[r] # pc[r]
             /\ pc'[r] \in {"geocodeStart", "geocodeEnd", "alertedGeocode"} )
           => UNCHANGED <<routeCoords, center, elevationGain, elevationData>>
        /\ pc[r] = "alertedGeocode" => pc'[r] = "alertedGeocode"

C6_State ==
    \A r \in Requests :
        /\ routeReq[r] # <<>> =>
             \A i \in 1..2 :
                routeReq[r][1].coordinates[i] =
                    geoData[r][i].features[1].geometry.coordinates
        /\ elevReq[r] # <<>> =>
             /\ AxesExchanged(elevReq[r][1].geometry, originalCoords[r])
             /\ [i \in 1..Len(originalCoords[r]) |->
                    swap(elevReq[r][1].geometry[i])] = originalCoords[r]

\* The step that takes the route geometry sets routeCoords and the centre.
C6_Step ==
    \A r \in Requests :
        pc[r] = "route" /\ pc'[r] = "elevation" =>
            /\ AxesExchanged(routeCoords', originalCoords'[r])
            /\ routeCoords' = elevReq'[r][1].geometry
            /\ center' = swap(originalCoords'[r][1])

C7_FlattestHasLeastGain ==
    \A r \in Requests :
        originalCoords[r] # <<>> =>
            LET cands == Candidates(routeReq[r][1].coordinates[1],
                                    routeReq[r][1].coordinates[2])
            IN  /\ closure[r] = "flat" =>
                     \A c \in cands :
                        GainAlong(originalCoords[r]) <= GainAlong(c)
                /\ closure[r] = "fast" =>
                     \A c \in cands :
                        routeDistance(originalCoords[r]) <= routeDistance(c)

\* C8: elevationData is sorted by distance strictly ascending, starts at
\* distance 0 and has exactly one entry per elevation sample received.
C8_ProfilePerSample ==
    /\ \A i \in 2..Len(elevationData) :
          elevationData[i - 1].distance < elevationData[i].distance
    /\ elevationData # <<>> => elevationData[1].distance = 0
    /\ \A r \in Requests :
          build = "App" /\ Latest(r) /\ GotSamples(r) =>
              LET samples == Samples(build, elevData[r][1])
              IN  /\ Len(elevationData) = Len(samples)
                  /\ \A i \in 1..Len(samples) :
                        elevationData[i].elevation = samples[i][3]

\* C9: with one route request at a time, whenever a route is held and a gain
\* is shown, the gain was computed from the elevation samples of the route
\* held.
C9_NoMixedState ==
    routeCoords # <<>> /\ elevationGain # NULL =>
        \E r \in Requests :
            /\ originalCoords[r] # <<>>
            /\ AxesExchanged(routeCoords, originalCoords[r])
            /\ elevData[r] # <<>>
            /\ "geometry" \in DOMAIN elevData[r][1]
            /\ elevationGain = GainOfResponse(r)

\* C10: when invocations overlap, the final routeCoords, elevationGain and
\* elevationData belong to the same request.
C10_FinalStateOfOneRequest ==
    (\A r \in Requests : pc[r] = "done") =>
        \E r \in Requests :
            /\ AxesExchanged(routeCoords, originalCoords[r])
            /\ elevationGain = GainOfResponse(r)
            /\ build = "App" =>
                 elevationData = elevationChart(Samples(build, elevData[r][1]))

====
